---- MODULE Spec2Model ----
(***************************************************************************)
(* Sales dashboards of the point-of-sale admin template.                   *)
(*                                                                         *)
(*   src/app/routes/dashboard.tsx      sales dashboard: action + loader    *)
(*   src/app/routes/formatCurrency.tsx pharmacy dashboard: action + loader *)
(*   src/unnamed/part_000              generic dashboard (delete only) and *)
(*                                     the hardened pharmacy dashboard     *)
(*                                                                         *)
(* The store (Supabase) is the collaborator: a table is a function from    *)
(* the ids of its rows to the rows; every store call either does exactly   *)
(* what the query says or reports an error and changes nothing.           *)
(* Timestamps are instants; the store reads a timestamp literal without a  *)
(* zone as UTC (the store's session zone).                                 *)
(***************************************************************************)
EXTENDS Integers, Sequences, FiniteSets, TLC

VARIABLES
    vendas,       \* table vendas: id -> [status, data_venda, valor_total]
    itens_venda,  \* table itens_venda: id -> [venda_id]
    produtos,     \* table produtos: id -> [status, quantidade]
    now,          \* the instant new Date() returns in a loader
    tz,           \* offset of the server's local zone from UTC, in hours
    onDelete,     \* what the store does with the line items of a sale it deletes
    last,         \* the last action request, its outcome and the tables before it
    loaderData,   \* the last loader response
    page          \* the state of the sales dashboard's component, and its last click

vars == <<vendas, itens_venda, produtos, now, tz, onDelete, last, loaderData, page>>

----------------------------------------------------------------------------
(* Bounds *)

MaxVendas == 2
MaxItens == 2
MaxProdutos == 1
MaxRecords == 3
MaxStock == 3
MaxSales == 21

VendaIds == 1..MaxVendas
ItemIds == 1..MaxItens
ProdutoIds == 1..MaxProdutos
RecordIds == 1..MaxRecords

----------------------------------------------------------------------------
(* Values *)

\* formData.get(name) of a field the form does not carry
Null == "<null>"

\* the four options of the status selects
Statuses == {"pendente", "confirmada", "entregue", "cancelada"}

\* what a request may carry in its status field
RequestStatuses == Statuses \cup {"bogus", Null}

Tables == {"vendas", "itens_venda", "produtos"}

\* a valor_total the store holds as NULL (the amounts themselves are >= 0)
NullValor == -1

----------------------------------------------------------------------------
(* Time: an instant is [day, ms], day counted from 2025-01-01 (day 0) in   *)
(* UTC and ms the millisecond of that day.                                 *)

MsPerHour == 60 * 60 * 1000
MsPerDay == 24 * MsPerHour

MonthDays == <<31, 28, 31, 30, 31, 30, 31, 31, 30, 31, 30, 31>>

Instant(day, ms) == [day |-> day, ms |-> ms]

Before(a, b) == a.day < b.day \/ (a.day = b.day /\ a.ms < b.ms)
Gte(a, b) == ~Before(a, b)
Lte(a, b) == ~Before(b, a)

\* the instant h hours after a (h may be negative)
AddHours(a, h) ==
    LET total == a.ms + h * MsPerHour
    IN  Instant(a.day + (total \div MsPerDay), total % MsPerDay)

IsLeapYear(y) == (y % 4 = 0 /\ y % 100 # 0) \/ y % 400 = 0

DaysInYear(y) == IF IsLeapYear(y) THEN 366 ELSE 365

DaysInMonth(y, m) == IF m = 2 /\ IsLeapYear(y) THEN 29 ELSE MonthDays[m]

\* the years the calendar reaches
Years == 2024..2026

RECURSIVE DaysBeforeYear(_)
\* the days from 2025-01-01 to January 1st of year y
DaysBeforeYear(y) ==
    IF y = 2025 THEN 0
    ELSE IF y > 2025 THEN DaysBeforeYear(y - 1) + DaysInYear(y - 1)
    ELSE DaysBeforeYear(y + 1) - DaysInYear(y)

RECURSIVE DaysBeforeMonth(_, _)
\* the days from January 1st of year y to the first day of its month m
DaysBeforeMonth(y, m) == IF m = 1 THEN 0 ELSE DaysBeforeMonth(y, m - 1) + DaysInMonth(y, m - 1)

\* the calendar, computed once
FirstDays == [y \in Years |-> [m \in 1..12 |-> DaysBeforeYear(y) + DaysBeforeMonth(y, m)]]

\* day index of January 1st of year y
FirstDayOfYear(y) == FirstDays[y][1]

\* day index of the first day of month m (1..12) of year y
FirstDayOfMonth(y, m) == FirstDays[y][m]

\* the year that holds day index d
YearOfDay(d) == CHOOSE y \in Years : FirstDayOfYear(y) <= d /\ d < FirstDayOfYear(y) + DaysInYear(y)

\* the month (1..12) that holds day index d
MonthOfDay(d) ==
    LET y == YearOfDay(d)
    IN  CHOOSE m \in 1..12 : FirstDayOfMonth(y, m) <= d /\ d < FirstDayOfMonth(y, m) + DaysInMonth(y, m)

\* the calendar date of day index d
DateOfDay(d) ==
    [year |-> YearOfDay(d), month |-> MonthOfDay(d),
     day |-> d - FirstDayOfMonth(YearOfDay(d), MonthOfDay(d)) + 1]

\* Date.prototype.toISOString: the UTC date and time of day of the instant
toISOString(a) == [date |-> DateOfDay(a.day), time |-> a.ms]

\* str.split('T')[0] of an ISO string: its date part
DatePart(iso) == iso.date

\* Date.prototype.getFullYear: the year in the server's zone
getFullYear(a, zone) == YearOfDay(AddHours(a, zone).day)

\* Date.prototype.getMonth: the month in the server's zone (1..12 here)
getMonth(a, zone) == MonthOfDay(AddHours(a, zone).day)

\* new Date(year, month, 1): midnight, in the server's zone, of the first day of the month
FirstOfMonthLocal(y, m, zone) == AddHours(Instant(FirstDayOfMonth(y, m), 0), -zone)

\* the store's reading of a date literal "YYYY-MM-DD": midnight UTC
ParseDate(d) == Instant(FirstDayOfMonth(d.year, d.month) + d.day - 1, 0)

\* the store's reading of a timestamp literal "YYYY-MM-DDTHH:MM:SS[.sss][Z]"
ParseTimestamp(iso) == Instant(ParseDate(iso.date).day, iso.time)

\* the literal `${hoje}T00:00:00`
StartOfDayLiteral(hoje) == [date |-> hoje, time |-> 0]

\* the literal `${hoje}T23:59:59`
EndOfDayLiteral(hoje) == [date |-> hoje, time |-> ((23 * 60 + 59) * 60 + 59) * 1000]

----------------------------------------------------------------------------
(* The store.  The loaders embed itens_venda in vendas, which the store    *)
(* answers only for a foreign key itens_venda.venda_id -> vendas.id; what  *)
(* the key does when a sale is deleted is the schema's choice, onDelete.   *)

OnDeleteRules == {"no action", "cascade", "set null"}

\* the line items of sale id in the table itens
ItensOf(itens, id) == {i \in DOMAIN itens : itens[i].venda_id = id}

\* supabase.from(t).delete().eq("id", id)
DeleteById(tbl, id) == [i \in DOMAIN tbl \ {id} |-> tbl[i]]

\* supabase.from("itens_venda").delete().eq("venda_id", id)
DeleteByVendaId(tbl, id) == [i \in DOMAIN tbl \ ItensOf(tbl, id) |-> tbl[i]]

\* supabase.from(t).update({ status }).eq("id", id)
UpdateStatusById(tbl, id, status) ==
    [i \in DOMAIN tbl |-> IF i = id THEN [tbl[i] EXCEPT !.status = status] ELSE tbl[i]]

\* the store refuses to delete a sale that line items refer to
Refused(itens, id) == onDelete = "no action" /\ ItensOf(itens, id) # {}

\* the line items after the store deleted sale id (venda_id 0 is NULL)
ItensAfterVendaDelete(itens, id) ==
    IF onDelete = "cascade" THEN DeleteByVendaId(itens, id)
    ELSE [i \in DOMAIN itens |-> IF itens[i].venda_id = id THEN [venda_id |-> 0] ELSE itens[i]]

\* the tables as one value, kept in last.pre
Snapshot == [vendas |-> vendas, itens_venda |-> itens_venda, produtos |-> produtos]

\* what `last` records of a request and its answer: the form, the errors the
\* store calls answered, the status of the response, and the tables before
Outcome(route, form, errs, code) ==
    [route |-> route, form |-> form, errs |-> errs, code |-> code, pre |-> Snapshot]

\* a form: the fields a request may carry (a field the form lacks is Null; id 0
\* is a form without an id)
Form(kind, table, id, status) == [kind |-> kind, table |-> table, id |-> id, status |-> status]

NoRequest == Outcome("none", Form(Null, Null, 0, Null), <<>>, 0)

\* useState("todos") and useState(null): the component as it mounts.  0 stands
\* for null; clicked is the sale of the last row click and before, the
\* expandedVenda that click found
Mounted == [filtroStatus |-> "todos", expandedVenda |-> 0, clicked |-> 0, before |-> 0]

----------------------------------------------------------------------------
(* src/app/routes/dashboard.tsx: action *)

\* a guarded transition table: nothing leaves cancelada or entregue
StatusToPersistTerminal(current, requested) ==
    IF current \in {"cancelada", "entregue"} THEN current ELSE requested

\* the status update_status writes: formData.get("status"), as it came
StatusToPersist(current, requested) == requested

\* delete_venda looking at the answer of neither delete
delete_venda_unchecked(form, errItens, errVenda) ==
    LET itens == IF errItens THEN itens_venda ELSE DeleteByVendaId(itens_venda, form.id)
        error == errVenda \/ Refused(itens, form.id)
    IN  /\ itens_venda' = IF error THEN itens ELSE ItensAfterVendaDelete(itens, form.id)
        /\ vendas' = IF error THEN vendas ELSE DeleteById(vendas, form.id)
        /\ last' = Outcome("vendas", form, <<errItens, error>>, 200)
        /\ UNCHANGED produtos

\* a delete_venda that answers 404 for a sale that is not stored
delete_venda_strict(form, errItens, errVenda) ==
    LET itens == IF errItens THEN itens_venda ELSE DeleteByVendaId(itens_venda, form.id)
        error == errVenda \/ Refused(itens, form.id)
    IN  /\ itens_venda' = IF error THEN itens ELSE ItensAfterVendaDelete(itens, form.id)
        /\ vendas' = IF error THEN vendas ELSE DeleteById(vendas, form.id)
        /\ last' = Outcome("vendas", form, <<errItens, error>>,
                           IF error THEN 500 ELSE IF form.id \in DOMAIN vendas THEN 200 ELSE 404)
        /\ UNCHANGED produtos

\* case "delete_venda": the answer of the first delete is not looked at
delete_venda(form, errItens, errVenda) ==
    LET itens == IF errItens THEN itens_venda ELSE DeleteByVendaId(itens_venda, form.id)
        error == errVenda \/ Refused(itens, form.id)
    IN  /\ itens_venda' = IF error THEN itens ELSE ItensAfterVendaDelete(itens, form.id)
        /\ vendas' = IF error THEN vendas ELSE DeleteById(vendas, form.id)
        /\ last' = Outcome("vendas", form, <<errItens, error>>, IF error THEN 500 ELSE 200)
        /\ UNCHANGED produtos

\* an update_status that writes the row also when the sale is not stored
update_status_upsert(form, statusError) ==
    /\ vendas' = IF statusError
                 THEN vendas
                 ELSE [i \in DOMAIN vendas \cup {form.id} |->
                          IF i = form.id
                          THEN [status |-> form.status, data_venda |-> now, valor_total |-> 0]
                          ELSE vendas[i]]
    /\ last' = Outcome("vendas", form, <<statusError>>, IF statusError THEN 500 ELSE 200)
    /\ UNCHANGED <<itens_venda, produtos>>

\* an update_status that also gives the stock back when it cancels a sale
update_status_restock(form, statusError) ==
    /\ vendas' = IF statusError
                 THEN vendas
                 ELSE UpdateStatusById(vendas, form.id, form.status)
    /\ produtos' = IF ~statusError /\ form.status = "cancelada" /\ form.id \in DOMAIN vendas
                   THEN [p \in DOMAIN produtos |-> [produtos[p] EXCEPT !.quantidade = @ + 1]]
                   ELSE produtos
    /\ last' = Outcome("vendas", form, <<statusError>>, IF statusError THEN 500 ELSE 200)
    /\ UNCHANGED itens_venda

\* case "update_status"
update_status(form, statusError) ==
    /\ vendas' = IF statusError
                 THEN vendas
                 ELSE [i \in DOMAIN vendas |->
                          IF i = form.id
                          THEN [vendas[i] EXCEPT !.status = StatusToPersist(vendas[i].status, form.status)]
                          ELSE vendas[i]]
    /\ last' = Outcome("vendas", form, <<statusError>>, IF statusError THEN 500 ELSE 200)
    /\ UNCHANGED <<itens_venda, produtos>>

\* export async function action: form.kind is formData.get("_action"), errs the
\* errors of its store calls, in their order
action(form, errs) ==
    /\ IF form.kind = "delete_venda" THEN delete_venda(form, errs[1], errs[2])
       ELSE IF form.kind = "update_status" THEN ~errs[2] /\ update_status(form, errs[1])
       ELSE /\ ~errs[1] /\ ~errs[2]
            /\ last' = Outcome("vendas", form, <<>>, 400)
            /\ UNCHANGED <<vendas, itens_venda, produtos>>
    /\ UNCHANGED <<now, tz, onDelete, loaderData, page>>

\* the forms of the sales dashboard, and those that name no action it knows
DeleteVendaForms == {Form("delete_venda", Null, id, Null) : id \in VendaIds}
UpdateStatusForms == {Form("update_status", Null, id, st) : id \in VendaIds, st \in RequestStatuses}
SalesForms ==
    DeleteVendaForms \cup UpdateStatusForms
        \cup {Form("other", Null, 1, Null), Form(Null, Null, 1, Null)}

----------------------------------------------------------------------------
(* The generic handlers: the table and the id come from the form *)

\* the ids a form may name for a table
IdsOf(table) ==
    IF table = "vendas" THEN VendaIds
    ELSE IF table = "itens_venda" THEN ItemIds
    ELSE ProdutoIds

\* the tables after supabase.from(table).delete().eq("id", id), and its error
DeleteFrom(table, id, err) ==
    LET error == err \/ (table = "vendas" /\ Refused(itens_venda, id))
    IN  /\ vendas' = IF table = "vendas" /\ ~error THEN DeleteById(vendas, id) ELSE vendas
        /\ itens_venda' =
               IF error THEN itens_venda
               ELSE IF table = "vendas" THEN ItensAfterVendaDelete(itens_venda, id)
               ELSE IF table = "itens_venda" THEN DeleteById(itens_venda, id)
               ELSE itens_venda
        /\ produtos' = IF table = "produtos" /\ ~error THEN DeleteById(produtos, id) ELSE produtos

\* the error DeleteFrom answers
DeleteError(table, id, err) == err \/ (table = "vendas" /\ Refused(itens_venda, id))

\* the tables after supabase.from(table).update({ status: newStatus }).eq("id", id);
\* the pages submit it for the tables whose status is a boolean
UpdateStatusIn(table, id, newStatus, error) ==
    /\ table = "produtos"
    /\ produtos' = IF error THEN produtos ELSE UpdateStatusById(produtos, id, newStatus)
    /\ UNCHANGED <<vendas, itens_venda>>

\* src/unnamed/part_000, lines 100-113: the generic dashboard deletes, whatever
\* else the form says
GenericAction(form, err) ==
    /\ DeleteFrom(form.table, form.id, err)
    /\ last' = Outcome("generic", form, <<DeleteError(form.table, form.id, err)>>,
                       IF DeleteError(form.table, form.id, err) THEN 500 ELSE 200)
    /\ UNCHANGED <<now, tz, onDelete, loaderData, page>>

\* status === "true" ? false : true
ToggledStatus(status) == IF status = "true" THEN FALSE ELSE TRUE

\* src/app/routes/formatCurrency.tsx: action; form.kind is formData.get("actionType")
PharmacyAction(form, err) ==
    /\ IF form.kind = "delete"
       THEN /\ DeleteFrom(form.table, form.id, err)
            /\ last' = Outcome("farmacia", form, <<DeleteError(form.table, form.id, err)>>,
                               IF DeleteError(form.table, form.id, err) THEN 500 ELSE 200)
       ELSE IF form.kind = "toggleStatus"
       THEN /\ UpdateStatusIn(form.table, form.id, ToggledStatus(form.status), err)
            /\ last' = Outcome("farmacia", form, <<err>>, IF err THEN 500 ELSE 200)
       ELSE /\ ~err
            /\ last' = Outcome("farmacia", form, <<>>, 400)
            /\ UNCHANGED <<vendas, itens_venda, produtos>>
    /\ UNCHANGED <<now, tz, onDelete, loaderData, page>>

\* a safeString that passes every value on
safeStringRaw(value) == value

\* safeString: null and undefined become ''
safeString(value) == IF value = Null THEN "" ELSE value

\* status?.toString() !== "true"
NewStatus(status) == status # "true"

\* src/unnamed/part_000, lines 474-513: the pharmacy action with its checks
SafePharmacyAction(form, err) ==
    LET actionType == safeString(form.kind)
        table == safeString(form.table)
    IN  /\ IF actionType = "" \/ table = "" \/ form.id = 0
           THEN /\ ~err
                /\ last' = Outcome("farmacia2", form, <<>>, 400)
                /\ UNCHANGED <<vendas, itens_venda, produtos>>
           ELSE IF actionType = "delete"
           THEN /\ DeleteFrom(table, form.id, err)
                /\ last' = Outcome("farmacia2", form, <<DeleteError(table, form.id, err)>>,
                                   IF DeleteError(table, form.id, err) THEN 500 ELSE 200)
           ELSE IF actionType = "toggleStatus"
           THEN /\ UpdateStatusIn(table, form.id, NewStatus(form.status), err)
                /\ last' = Outcome("farmacia2", form, <<err>>, IF err THEN 500 ELSE 200)
           ELSE /\ ~err
                /\ last' = Outcome("farmacia2", form, <<>>, 400)
                /\ UNCHANGED <<vendas, itens_venda, produtos>>
        /\ UNCHANGED <<now, tz, onDelete, loaderData, page>>

\* the forms that delete a sale
DeleteSaleForms == {Form("delete", "vendas", id, Null) : id \in VendaIds}

\* the forms that delete a line item
DeleteItemForms == {Form("delete", "itens_venda", id, Null) : id \in ItemIds}

\* the forms that delete or toggle a product
ProdutoForms ==
    {Form("delete", "produtos", id, Null) : id \in ProdutoIds}
        \cup {Form("toggleStatus", "produtos", id, st) : id \in ProdutoIds, st \in {"true", "false", Null}}

\* the forms that lack the action, the table or the id, or name no action
BadForms ==
    {Form("other", "vendas", 1, Null), Form(Null, "vendas", 1, Null),
     Form("delete", Null, 1, Null), Form("delete", "vendas", 0, Null)}

----------------------------------------------------------------------------
(* The loaders.  A query answers { data, count, error }: with an error,    *)
(* data and count are null.  The loaders never look at error.              *)

\* a null taken for an amount like any other
PlusRaw(sum, valor) == sum + valor

\* sum + venda.valor_total: the addition converts null to 0
Plus(sum, valor) == sum + (IF valor = NullValor THEN 0 ELSE valor)

RECURSIVE SumValorTotal(_)
\* rows.reduce((sum, venda) => sum + venda.valor_total, 0) over the rows with these ids
SumValorTotal(ids) ==
    IF ids = {} THEN 0
    ELSE LET i == CHOOSE j \in ids : TRUE
         IN  Plus(SumValorTotal(ids \ {i}), vendas[i].valor_total)

\* venda.valor_total || 0
ValorOrZero(valor) == IF valor = NullValor \/ valor = 0 THEN 0 ELSE valor

RECURSIVE SumValorTotalOrZero(_)
\* part_000: data?.reduce((acc, venda) => acc + (venda.valor_total || 0), 0)
SumValorTotalOrZero(ids) ==
    IF ids = {} THEN 0
    ELSE LET i == CHOOSE j \in ids : TRUE
         IN  SumValorTotalOrZero(ids \ {i}) + ValorOrZero(vendas[i].valor_total)

\* the null of a query that answered an error, passed on
OrNull(error, value) == IF error THEN NullValor ELSE value

\* count || 0 and data?.reduce(...) || 0: null becomes 0
OrZero(error, value) == IF error THEN 0 ELSE value

\* const hoje = new Date().toISOString().split('T')[0]
Hoje(t) == DatePart(toISOString(t))

\* const inicioMes = new Date(new Date().getFullYear(), new Date().getMonth(), 1).toISOString()
InicioMes(t, zone) == toISOString(FirstOfMonthLocal(getFullYear(t, zone), getMonth(t, zone), zone))

\* dashboard.tsx: the rows of .gte("data_venda", hoje)
VendasHojeRows(hoje) ==
    LET from == ParseDate(hoje)
    IN  {i \in DOMAIN vendas : Gte(vendas[i].data_venda, from)}

\* dashboard.tsx: the rows of .gte("data_venda", inicioMes)
VendasMesRows(inicioMes) ==
    LET from == ParseTimestamp(inicioMes)
    IN  {i \in DOMAIN vendas : Gte(vendas[i].data_venda, from)}

\* the window of the day with the cancelled sales filtered out
PharmacyHojeRowsNotCancelled(hoje) ==
    LET from == ParseTimestamp(StartOfDayLiteral(hoje))
        to == ParseTimestamp(EndOfDayLiteral(hoje))
    IN  {i \in DOMAIN vendas :
            /\ Gte(vendas[i].data_venda, from) /\ Lte(vendas[i].data_venda, to)
            /\ vendas[i].status # "cancelada"}

\* the pharmacy loaders: the rows of
\* .gte("data_venda", `${hoje}T00:00:00`).lte("data_venda", `${hoje}T23:59:59`)
PharmacyHojeRows(hoje) ==
    LET from == ParseTimestamp(StartOfDayLiteral(hoje))
        to == ParseTimestamp(EndOfDayLiteral(hoje))
    IN  {i \in DOMAIN vendas : Gte(vendas[i].data_venda, from) /\ Lte(vendas[i].data_venda, to)}

\* the members every object literal inherits from Object.prototype (those a
\* status may name here), and the accessor of the prototype itself
InheritedKeys == {"constructor", "toString"}
ProtoKey == "__proto__"

\* the property key of acc[venda.status]: the status as a string
PropertyKey(status) == IF status = Null THEN "null" ELSE status

\* the values a property of acc holds: the number n, or a text followed by n
\* digits 1 (what + 1 makes of a function or of an object)
Number(n) == [kind |-> "number", n |-> n]
Text(n) == [kind |-> "string", n |-> n]

\* (acc[key] || 0) + 1
Incremented(acc, key) ==
    IF key \in DOMAIN acc
    THEN [acc[key] EXCEPT !.n = @ + 1]
    ELSE IF key \in InheritedKeys \cup {ProtoKey} THEN Text(1)
    ELSE Number(1)

\* acc[venda.status] = (acc[venda.status] || 0) + 1; return acc: the prototype
\* accessor drops a value that is no object
CountStep(acc, status) ==
    LET key == PropertyKey(status)
    IN  IF key = ProtoKey THEN acc
        ELSE [k \in DOMAIN acc \cup {key} |-> IF k = key THEN Incremented(acc, key) ELSE acc[k]]

\* a summary that starts with the four statuses at zero
StatusCountSeeded(ids) ==
    [st \in Statuses |-> Number(Cardinality({i \in ids : vendas[i].status = st}))]

RECURSIVE StatusCountOf(_)
\* vendasPorStatus.reduce(..., {}) over the rows with these ids
StatusCountOf(ids) ==
    IF ids = {} THEN <<>>
    ELSE LET i == CHOOSE j \in ids : TRUE
         IN  CountStep(StatusCountOf(ids \ {i}), vendas[i].status)

\* valorTotalMes / totalVendas without the test: 0 / 0 for no sales
TicketMedioUnguarded(totalError, totalVendas, valorTotalMes) ==
    [num |-> valorTotalMes, den |-> IF totalError THEN 0 ELSE totalVendas]

\* totalVendas > 0 ? valorTotalMes / totalVendas : 0, as a fraction
TicketMedio(totalError, totalVendas, valorTotalMes) ==
    IF ~totalError /\ totalVendas > 0
    THEN [num |-> valorTotalMes, den |-> totalVendas]
    ELSE [num |-> 0, den |-> 1]

\* the rows of ids with the latest data_venda
Latest(ids) == {i \in ids : \A j \in ids : ~Before(vendas[i].data_venda, vendas[j].data_venda)}

RECURSIVE Ordered(_)
\* .order("data_venda", { ascending: false }): the sequences the store may
\* answer; rows of the same data_venda come in any order
Ordered(ids) ==
    IF ids = {} THEN {<<>>}
    ELSE UNION {{<<[id |-> i, status |-> vendas[i].status]>> \o rest : rest \in Ordered(ids \ {i})} :
                    i \in Latest(ids)}

\* .limit(20)
ListLimit == 20
Limit(rows) == IF Len(rows) > ListLimit THEN SubSeq(rows, 1, ListLimit) ELSE rows

\* src/app/routes/dashboard.tsx: loader.  errs[k] says that query k answered an
\* error: 1 totalVendas, 2 vendasHoje, 3 vendasMes, 4 vendasPorStatus, 5 vendas
\* (the list the page shows: vendas || [])
VendasLoader ==
    LET hoje == Hoje(now)
        inicioMes == InicioMes(now, tz)
        totalVendas == Cardinality(DOMAIN vendas)
        vendasHoje == Cardinality(VendasHojeRows(hoje))
        somaMes == SumValorTotal(VendasMesRows(inicioMes))
        porStatus == StatusCountOf(DOMAIN vendas)
    IN  \E errs \in [1..5 -> BOOLEAN], rows \in Ordered(DOMAIN vendas) :
            /\ errs[5] => rows = CHOOSE r \in Ordered(DOMAIN vendas) : TRUE
            /\ loaderData' =
                   [loader |-> "vendas",
                    vendas |-> IF errs[5] THEN <<>> ELSE Limit(rows),
                    hoje |-> hoje,
                    inicioMes |-> inicioMes,
                    errs |-> errs,
                    stats |-> [totalVendas |-> OrZero(errs[1], totalVendas),
                               vendasHoje |-> OrZero(errs[2], vendasHoje),
                               valorTotalMes |-> OrZero(errs[3], somaMes),
                               ticketMedio |-> TicketMedio(errs[1], totalVendas, OrZero(errs[3], somaMes))],
                    statusCount |-> IF errs[4] THEN <<>> ELSE porStatus]
            /\ UNCHANGED <<vendas, itens_venda, produtos, now, tz, onDelete, last, page>>

\* src/app/routes/dashboard.tsx, lines 250-263: the summary shows one entry for
\* each pair of Object.entries(statusCount), the own keys of statusCount
ResumoPorStatus(statusCount) == {<<status, statusCount[status]>> : status \in DOMAIN statusCount}

\* a list that takes no notice of the filter
vendasUnfiltered(list, filtroStatus) == list

\* src/app/routes/dashboard.tsx, lines 184-186
vendasFiltradas(list, filtroStatus) ==
    IF filtroStatus = "todos" THEN list
    ELSE SelectSeq(list, LAMBDA venda : venda.status = filtroStatus)

\* the options of the filter select
FilterOptions == {"todos"} \cup Statuses

\* a click that expands the row whatever is expanded
toggleVendaDetailsExpand(expandedVenda, vendaId) == vendaId

\* setExpandedVenda(expandedVenda === vendaId ? null : vendaId)
toggleVendaDetails(expandedVenda, vendaId) == IF expandedVenda = vendaId THEN 0 ELSE vendaId

\* a low-stock query that takes the limit in
BaixoEstoqueInclusive == {p \in DOMAIN produtos : produtos[p].quantidade <= 10 /\ produtos[p].status = TRUE}

\* .lt("quantidade", 10).eq("status", true)
BaixoEstoque == {p \in DOMAIN produtos : produtos[p].quantidade < 10 /\ produtos[p].status = TRUE}

\* Boolean.prototype.toString
BooleanToString(b) == IF b THEN "true" ELSE "false"

\* the answer of both pharmacy loaders.  errs[k] says that query k answered an
\* error: 1 vendas of today (count), 2 vendas of today (valor_total), 3 produtos
\* of low stock, 4 recentProdutos (the products the page shows, with the
\* status of each; the store holds no more than the five it asks for)
Estatisticas(loader) ==
    LET hoje == Hoje(now)
        rows == PharmacyHojeRows(hoje)
        count == Cardinality(rows)
        receita == IF loader = "farmacia2" THEN SumValorTotalOrZero(rows) ELSE SumValorTotal(rows)
        baixo == Cardinality(BaixoEstoque)
    IN  \E errs \in [1..4 -> BOOLEAN] :
            loaderData' =
                [loader |-> loader,
                 hoje |-> hoje,
                 errs |-> errs,
                 recentProdutos |->
                     IF errs[4] THEN <<>> ELSE [p \in DOMAIN produtos |-> produtos[p].status],
                 estatisticas |->
                     [totalVendasHoje |-> OrZero(errs[1], count),
                      totalReceitaHoje |-> OrZero(errs[2], receita),
                      produtosBaixoEstoque |-> OrZero(errs[3], baixo)]]

\* src/app/routes/formatCurrency.tsx: loader
PharmacyLoader ==
    /\ Estatisticas("farmacia")
    /\ UNCHANGED <<vendas, itens_venda, produtos, now, tz, onDelete, last, page>>

\* src/unnamed/part_000, lines 515-573: loader; its catch answers zeros, as do
\* three queries that answer an error
SafePharmacyLoader ==
    /\ Estatisticas("farmacia2")
    /\ UNCHANGED <<vendas, itens_venda, produtos, now, tz, onDelete, last, page>>

----------------------------------------------------------------------------
(* Initial states *)

VendaRows(statuses, instants, valores) ==
    [status : statuses, data_venda : instants, valor_total : valores]

TablesOf(ids, rows) == UNION {[S -> rows] : S \in SUBSET ids}

\* the sale the application wrote item i for: two items to a sale
VendaOfItem(i) == IF (i + 1) \div 2 > MaxVendas THEN MaxVendas ELSE (i + 1) \div 2

\* 2025-01-15T12:00:00.000Z
Noon == Instant(14, 12 * MsPerHour)

\* the sales the application created: each status one of the four, each line
\* item of a stored sale
Init ==
    /\ vendas \in TablesOf(VendaIds, VendaRows(Statuses, {Noon}, {100}))
    /\ itens_venda \in TablesOf(ItemIds, [venda_id : VendaIds])
    /\ \A i \in DOMAIN itens_venda :
           /\ itens_venda[i].venda_id = VendaOfItem(i)
           /\ itens_venda[i].venda_id \in DOMAIN vendas
    /\ produtos = [p \in ProdutoIds |-> [status |-> TRUE, quantidade |-> 5]]
    /\ now = Noon
    /\ tz = 0
    /\ onDelete \in OnDeleteRules
    /\ last = NoRequest
    /\ loaderData = [loader |-> "none"]
    /\ page = Mounted

\* the requests to the sales dashboard, by the action they name; a store
\* call that is not made answers no error
DeleteVendaRequest ==
    \E form \in DeleteVendaForms, errItens \in BOOLEAN, errVenda \in BOOLEAN :
        action(form, <<errItens, errVenda>>)
UpdateStatusRequest ==
    \E form \in UpdateStatusForms, statusError \in BOOLEAN : action(form, <<statusError, FALSE>>)
UnknownRequest ==
    \E form \in SalesForms \ (DeleteVendaForms \cup UpdateStatusForms) : action(form, <<FALSE, FALSE>>)

Next == DeleteVendaRequest \/ UpdateStatusRequest \/ UnknownRequest

\* the sales dashboard's action on the store
Spec == Init /\ [][Next]_vars

\* every sale and every line item stored, every sale pendente: a sale that
\* is missing later was deleted, a status that differs was written
InitAllStored ==
    /\ vendas = [i \in VendaIds |-> [status |-> "pendente", data_venda |-> Noon, valor_total |-> 100]]
    /\ itens_venda = [i \in ItemIds |-> [venda_id |-> VendaOfItem(i)]]
    /\ produtos = [p \in ProdutoIds |-> [status |-> TRUE, quantidade |-> 5]]
    /\ now = Noon
    /\ tz = 0
    /\ onDelete \in OnDeleteRules
    /\ last = NoRequest
    /\ loaderData = [loader |-> "none"]
    /\ page = Mounted

\* the sales dashboard's action, request after request, on a full store
SpecRepeat == InitAllStored /\ [][Next]_vars

\* the requests to the other dashboards that delete a sale or a line item
GenericDelete ==
    \E form \in DeleteSaleForms \cup DeleteItemForms, err \in BOOLEAN : GenericAction(form, err)
PharmacyDelete ==
    \E form \in DeleteSaleForms \cup DeleteItemForms, err \in BOOLEAN : PharmacyAction(form, err)
SafePharmacyDelete ==
    \E form \in DeleteSaleForms \cup DeleteItemForms, err \in BOOLEAN : SafePharmacyAction(form, err)

NextDeletes == DeleteVendaRequest \/ GenericDelete \/ PharmacyDelete \/ SafePharmacyDelete

\* the deletions of sales and line items, by every dashboard
SpecDeletes == Init /\ [][NextDeletes]_vars

\* the requests to the other dashboards about products, and the malformed ones
GenericOther ==
    \E form \in ProdutoForms \cup BadForms, err \in BOOLEAN :
        /\ form.table # Null /\ form.id # 0
        /\ GenericAction(form, err)
PharmacyOther ==
    \E form \in ProdutoForms \cup BadForms, err \in BOOLEAN :
        /\ form.table # Null /\ form.id # 0
        /\ PharmacyAction(form, err)
SafePharmacyOther == \E form \in ProdutoForms \cup BadForms, err \in BOOLEAN : SafePharmacyAction(form, err)

\* the toggle forms of the products a pharmacy page shows: the status field is
\* the status the page was rendered with
PharmacyToggleFromPage ==
    /\ loaderData.loader = "farmacia"
    /\ \E p \in DOMAIN loaderData.recentProdutos, err \in BOOLEAN :
           PharmacyAction(Form("toggleStatus", "produtos", p,
                               BooleanToString(loaderData.recentProdutos[p])), err)
SafePharmacyToggleFromPage ==
    /\ loaderData.loader = "farmacia2"
    /\ \E p \in DOMAIN loaderData.recentProdutos, err \in BOOLEAN :
           SafePharmacyAction(Form("toggleStatus", "produtos", p,
                                   safeString(BooleanToString(loaderData.recentProdutos[p]))), err)

NextToggle ==
    \/ PharmacyLoader
    \/ SafePharmacyLoader
    \/ PharmacyToggleFromPage
    \/ SafePharmacyToggleFromPage

\* the pharmacy pages: loaded, and their toggle forms submitted
SpecToggle == InitAllStored /\ [][NextToggle]_vars

NextOthers == UnknownRequest \/ GenericOther \/ PharmacyOther \/ SafePharmacyOther

\* the requests about products and the malformed ones, to every dashboard
SpecOthers == InitAllStored /\ [][NextOthers]_vars

NextDashboards == Next \/ NextDeletes \/ GenericOther \/ PharmacyOther \/ SafePharmacyOther

\* every request to every dashboard
SpecDashboards == Init /\ [][NextDashboards]_vars

\* the instants the loaders run at: around the end of January 2025
Nows == {Instant(30, 12 * MsPerHour), Instant(30, 22 * MsPerHour + MsPerHour \div 2),
         Instant(31, MsPerHour), Instant(31, 6 * MsPerHour)}

\* the zones of the server: UTC-5, UTC, UTC+2
TzOffsets == {-5, 0, 2}

\* the dates of the sales: from the day before to the first day of March
SaleInstants ==
    {Instant(29, 12 * MsPerHour), Instant(30, 0), Instant(30, 10 * MsPerHour),
     Instant(30, MsPerDay - 1000), Instant(30, MsPerDay - 1),
     Instant(31, 0), Instant(31, 2 * MsPerHour), Instant(59, 0)}

InitLoaders ==
    /\ vendas \in TablesOf(VendaIds, VendaRows({"pendente", "cancelada"}, SaleInstants, {100, 250}))
    /\ \A i \in DOMAIN vendas : vendas[i].status = "cancelada" <=> vendas[i].valor_total = 250
    /\ itens_venda = <<>>
    /\ produtos = [p \in ProdutoIds |-> [status |-> TRUE, quantidade |-> 5]]
    /\ now \in Nows
    /\ tz \in TzOffsets
    /\ onDelete = "no action"
    /\ last = NoRequest
    /\ loaderData = [loader |-> "none"]
    /\ page = Mounted

\* no loader has answered yet
Idle == loaderData.loader = "none"

\* one loader call in each behaviour: nobody writes to the store, so a second
\* call would answer as the first
NextLoaders ==
    \/ Idle /\ VendasLoader
    \/ Idle /\ PharmacyLoader
    \/ Idle /\ SafePharmacyLoader

\* the loaders over the sales of a store nobody writes to
SpecLoaders == InitLoaders /\ [][NextLoaders]_vars

\* The loader of the sales dashboard query by query: each await gives way to
\* the other requests of the server.  While it runs, loaderData holds what the
\* loader has so far and pc, the query it sends next (the query of the list
\* of sales, between the third and the last, adds nothing to the summaries).
Running(pc, hoje, inicioMes, errs, totalVendas, vendasHoje, valorTotalMes) ==
    [loader |-> "running", pc |-> pc, hoje |-> hoje, inicioMes |-> inicioMes, errs |-> errs,
     totalVendas |-> totalVendas, vendasHoje |-> vendasHoje, valorTotalMes |-> valorTotalMes]

\* lines 112-118: hoje, inicioMes and the count of all sales
QueryTotalVendas ==
    /\ Idle
    /\ \E err \in BOOLEAN :
           loaderData' = Running(2, Hoje(now), InicioMes(now, tz), <<err>>,
                                 Cardinality(DOMAIN vendas), 0, 0)
    /\ UNCHANGED <<vendas, itens_venda, produtos, now, tz, onDelete, last, page>>

\* lines 121-124: the count of the sales of today
QueryVendasHoje ==
    /\ loaderData.loader = "running" /\ loaderData.pc = 2
    /\ \E err \in BOOLEAN :
           loaderData' = [loaderData EXCEPT
                             !.pc = 3,
                             !.errs = Append(@, err),
                             !.vendasHoje = Cardinality(VendasHojeRows(loaderData.hoje))]
    /\ UNCHANGED <<vendas, itens_venda, produtos, now, tz, onDelete, last, page>>

\* lines 127-132: the sales of the month and their sum
QueryVendasMes ==
    /\ loaderData.loader = "running" /\ loaderData.pc = 3
    /\ \E err \in BOOLEAN :
           loaderData' = [loaderData EXCEPT
                             !.pc = 4,
                             !.errs = Append(@, err),
                             !.valorTotalMes = OrZero(err, SumValorTotal(VendasMesRows(loaderData.inicioMes)))]
    /\ UNCHANGED <<vendas, itens_venda, produtos, now, tz, onDelete, last, page>>

\* lines 150-169: the statuses, their summary and the response
QueryVendasPorStatus ==
    /\ loaderData.loader = "running" /\ loaderData.pc = 4
    /\ \E err \in BOOLEAN :
           LET errs == Append(loaderData.errs, err)
           IN  loaderData' =
                   [loader |-> "vendas",
                    hoje |-> loaderData.hoje,
                    inicioMes |-> loaderData.inicioMes,
                    errs |-> errs,
                    stats |-> [totalVendas |-> OrZero(errs[1], loaderData.totalVendas),
                               vendasHoje |-> OrZero(errs[2], loaderData.vendasHoje),
                               valorTotalMes |-> loaderData.valorTotalMes,
                               ticketMedio |-> TicketMedio(errs[1], loaderData.totalVendas,
                                                           loaderData.valorTotalMes)],
                    statusCount |-> IF err THEN <<>> ELSE StatusCountOf(DOMAIN vendas)]
    /\ UNCHANGED <<vendas, itens_venda, produtos, now, tz, onDelete, last, page>>

\* one request to the action while the loader runs
NextConcurrent ==
    \/ QueryTotalVendas
    \/ QueryVendasHoje
    \/ QueryVendasMes
    \/ QueryVendasPorStatus
    \/ last = NoRequest /\ DeleteVendaRequest
    \/ last = NoRequest /\ UpdateStatusRequest

\* one call of the loader and one request to the action, on the same server
SpecConcurrent == InitAllStored /\ [][NextConcurrent]_vars

\* the sales the summaries are taken of, with now at 2025-01-31T12:00Z: of
\* today, of the day before, of the month before; with and without an amount;
\* with a status of the four, with none, and with another text
Today == Instant(30, 10 * MsPerHour)
Yesterday == Instant(29, 12 * MsPerHour)
LastMonth == Instant(-1, 12 * MsPerHour)

StatsRows ==
    {[status |-> "pendente", data_venda |-> Today, valor_total |-> 100],
     [status |-> "confirmada", data_venda |-> Today, valor_total |-> 250],
     [status |-> "cancelada", data_venda |-> Today, valor_total |-> 0],
     [status |-> "cancelada", data_venda |-> Today, valor_total |-> 250],
     [status |-> "entregue", data_venda |-> Today, valor_total |-> NullValor],
     [status |-> Null, data_venda |-> Yesterday, valor_total |-> 100],
     [status |-> "bogus", data_venda |-> Yesterday, valor_total |-> NullValor],
     [status |-> "constructor", data_venda |-> Yesterday, valor_total |-> 250],
     [status |-> "__proto__", data_venda |-> Today, valor_total |-> 100],
     [status |-> "pendente", data_venda |-> LastMonth, valor_total |-> 250]}

\* sale i was written i ms after the instant of its row, so that no two sales
\* have the same data_venda
InitStats ==
    /\ vendas \in {[i \in DOMAIN t |-> [t[i] EXCEPT !.data_venda.ms = @ + i]] :
                       t \in TablesOf(RecordIds, StatsRows)}
    /\ itens_venda = <<>>
    /\ produtos = [p \in ProdutoIds |-> [status |-> TRUE, quantidade |-> 5]]
    /\ now = Instant(30, 12 * MsPerHour)
    /\ tz = 0
    /\ onDelete = "no action"
    /\ last = NoRequest
    /\ loaderData = [loader |-> "none"]
    /\ page = Mounted

\* the loaders over sales of every kind
SpecStats == InitStats /\ [][NextLoaders]_vars

\* the sales dashboard in the browser: the loader answers, the user picks a
\* filter, the user clicks a row of the list shown
Loaded == loaderData.loader = "vendas"

SetFiltroStatus ==
    /\ Loaded
    /\ \E filtro \in FilterOptions : page' = [page EXCEPT !.filtroStatus = filtro]
    /\ UNCHANGED <<vendas, itens_venda, produtos, now, tz, onDelete, last, loaderData>>

ClickRow ==
    /\ Loaded
    /\ LET shown == vendasFiltradas(loaderData.vendas, page.filtroStatus)
       IN  \E k \in 1..Len(shown) :
               page' = [page EXCEPT
                           !.expandedVenda = toggleVendaDetails(page.expandedVenda, shown[k].id),
                           !.clicked = shown[k].id,
                           !.before = page.expandedVenda]
    /\ UNCHANGED <<vendas, itens_venda, produtos, now, tz, onDelete, last, loaderData>>

PageStatuses == {"pendente", "cancelada", "bogus"}

\* sale i was made on day i
InitPage ==
    /\ vendas \in {[i \in VendaIds |-> [status |-> st[i], data_venda |-> Instant(i, 0), valor_total |-> 100]] :
                       st \in [VendaIds -> PageStatuses]}
    /\ itens_venda = <<>>
    /\ produtos = <<>>
    /\ now = Noon
    /\ tz = 0
    /\ onDelete = "no action"
    /\ last = NoRequest
    /\ loaderData = [loader |-> "none"]
    /\ page = Mounted

NextPage == (Idle /\ VendasLoader) \/ SetFiltroStatus \/ ClickRow

SpecPage == InitPage /\ [][NextPage]_vars

\* a store of up to MaxSales sales, one a day, the older ones pendente and
\* the later ones entregue
InitMany ==
    /\ \E n \in 0..MaxSales, k \in 0..MaxSales :
           /\ k <= n
           /\ vendas = [i \in 1..n |-> [status |-> IF i <= k THEN "pendente" ELSE "entregue",
                                        data_venda |-> Instant(i, 0),
                                        valor_total |-> 100]]
    /\ itens_venda = <<>>
    /\ produtos = <<>>
    /\ now = Instant(MaxSales + 1, 0)
    /\ tz = 0
    /\ onDelete = "no action"
    /\ last = NoRequest
    /\ loaderData = [loader |-> "none"]
    /\ page = Mounted

\* the loaders over a store of many sales
SpecMany == InitMany /\ [][NextLoaders]_vars

\* products on both sides of the low-stock limit, active and inactive
StockIds == 1..MaxStock
StockRows == [status : BOOLEAN, quantidade : {0, 9, 10, 11}]

InitStock ==
    /\ vendas = <<>>
    /\ itens_venda = <<>>
    /\ produtos \in [StockIds -> StockRows]
    /\ now = Noon
    /\ tz = 0
    /\ onDelete = "no action"
    /\ last = NoRequest
    /\ loaderData = [loader |-> "none"]
    /\ page = Mounted

NextStock ==
    \/ Idle /\ PharmacyLoader
    \/ Idle /\ SafePharmacyLoader

\* the pharmacy loaders over products of every kind
SpecStock == InitStock /\ [][NextStock]_vars

----------------------------------------------------------------------------
(* Status changes and deletions (Spec, SpecDeletes) *)

\* the sale the last request names was stored when the request came
SaleWasStored == last.form.id \in DOMAIN last.pre.vendas

\* C1: an update_status request for a stored sale whose status is not one of
\* the four (or is missing) is answered with an error and leaves the stored
\* sales as they were.
C1_InvalidStatusRejected ==
    (last.form.kind = "update_status" /\ last.form.status \notin Statuses /\ SaleWasStored) =>
        /\ last.code # 200
        /\ vendas = last.pre.vendas

\* C2: the status of every stored sale is one of the four, in every state the
\* update_status and delete_venda requests reach.
C2_StatusAlwaysEnumerated ==
    \A i \in DOMAIN vendas : vendas[i].status \in Statuses

C4_DeleteVendaAllOrNothing ==
    /\ (last.form.kind = "delete_venda" /\ last.code # 200) =>
           /\ vendas = last.pre.vendas
           /\ itens_venda = last.pre.itens_venda
    /\ (last.form.kind = "delete_venda" /\ SaleWasStored /\ last.form.id \notin DOMAIN vendas) =>
           ItensOf(itens_venda, last.form.id) = {}

\* C5: update_status accepts every transition among the four statuses: for a
\* stored sale, whatever its status, and a requested status of the four, the
\* request is answered with success and the stored status is the requested
\* one; the one other outcome is the store's own failure, which leaves the
\* sales as they were.
C5_EveryTransitionAccepted ==
    (last.form.kind = "update_status" /\ last.form.status \in Statuses /\ SaleWasStored) =>
        IF last.errs[1]
        THEN last.code = 500 /\ vendas = last.pre.vendas
        ELSE /\ last.code = 200
             /\ DOMAIN vendas = DOMAIN last.pre.vendas
             /\ vendas[last.form.id].status = last.form.status

\* a cancelled sale was set back to pendente
C5_Witness ==
    /\ last.form.kind = "update_status"
    /\ last.code = 200
    /\ SaleWasStored
    /\ last.pre.vendas[last.form.id].status = "cancelada"
    /\ last.form.status = "pendente"
    /\ vendas[last.form.id].status = "pendente"

\* C19: an update_status answered with success changes the status of the
\* sale with the id given and nothing else: no other sale, no other field of
\* that sale, no line item and no product.
C19_UpdateStatusChangesOnlyStatus ==
    (last.form.kind = "update_status" /\ last.code = 200) =>
        /\ itens_venda = last.pre.itens_venda
        /\ produtos = last.pre.produtos
        /\ DOMAIN vendas = DOMAIN last.pre.vendas
        /\ \A i \in DOMAIN vendas :
               /\ i # last.form.id => vendas[i] = last.pre.vendas[i]
               /\ vendas[i].data_venda = last.pre.vendas[i].data_venda
               /\ vendas[i].valor_total = last.pre.vendas[i].valor_total

\* a sale with line items was cancelled while another sale was stored
C19_Witness ==
    /\ last.form.kind = "update_status"
    /\ last.code = 200
    /\ last.form.status = "cancelada"
    /\ SaleWasStored
    /\ last.pre.vendas[last.form.id].status = "confirmada"
    /\ vendas[last.form.id].status = "cancelada"
    /\ ItensOf(itens_venda, last.form.id) # {}
    /\ Cardinality(DOMAIN vendas) = 2
    /\ DOMAIN produtos # {}

\* C18: an update_status or delete_venda request that was answered with
\* success and is sent again leaves the store as the first left it, and is
\* answered with success again unless the store itself fails.
C18_RepeatedRequestIdempotent ==
    [][(/\ last.form.kind \in {"update_status", "delete_venda"}
        /\ last.code = 200
        /\ last'.form = last.form) =>
           /\ vendas' = vendas
           /\ itens_venda' = itens_venda
           /\ produtos' = produtos
           /\ (\A k \in DOMAIN last'.errs : ~last'.errs[k]) => last'.code = 200]_vars

\* a delete_venda for a sale that an earlier delete_venda removed, with its
\* line items, was answered with success
C18_Witness ==
    /\ last.form.kind = "delete_venda"
    /\ last.form.id \notin DOMAIN last.pre.vendas
    /\ ItensOf(last.pre.itens_venda, last.form.id) = {}
    /\ last.code = 200
    /\ vendas = last.pre.vendas
    /\ itens_venda = last.pre.itens_venda

----------------------------------------------------------------------------
(* The periods of the loaders (SpecLoaders) *)

\* the day after instant a, at the same time of day
NextDay(a) == Instant(a.day + 1, a.ms)

\* the calendar date of instant t in the zone of the server
LocalDate(t, zone) == DateOfDay(AddHours(t, zone).day)

\* the sales dated on the day the loader took for today: from its midnight
\* up to, and without, the next midnight
SalesOfDay(hoje) ==
    {i \in DOMAIN vendas :
        /\ Gte(vendas[i].data_venda, ParseDate(hoje))
        /\ Before(vendas[i].data_venda, NextDay(ParseDate(hoje)))}

\* the first instant of the month of t in the zone of the server
MonthStart(t, zone) == FirstOfMonthLocal(getFullYear(t, zone), getMonth(t, zone), zone)

\* the first instant of the month after the month of t
NextMonthStart(t, zone) ==
    IF getMonth(t, zone) = 12
    THEN FirstOfMonthLocal(getFullYear(t, zone) + 1, 1, zone)
    ELSE FirstOfMonthLocal(getFullYear(t, zone), getMonth(t, zone) + 1, zone)

\* the sales dated in the month of now
SalesOfMonth ==
    {i \in DOMAIN vendas :
        /\ Gte(vendas[i].data_venda, MonthStart(now, tz))
        /\ Before(vendas[i].data_venda, NextMonthStart(now, tz))}

\* C6: vendasHoje counts the sales dated within the day taken for today and
\* no other: a sale dated at 00:00:00.000 of the next day, or later, is not
\* counted.
C6_VendasHojeWithinDay ==
    (loaderData.loader = "vendas" /\ ~loaderData.errs[2]) =>
        loaderData.stats.vendasHoje = Cardinality(SalesOfDay(loaderData.hoje))

\* C7: the pharmacy loaders count every sale dated within the day taken for
\* today, up to 23:59:59.999, in totalVendasHoje, and add its valor_total to
\* totalReceitaHoje.
C7_LastSecondCounted ==
    (loaderData.loader \in {"farmacia", "farmacia2"} /\ ~loaderData.errs[1] /\ ~loaderData.errs[2]) =>
        /\ loaderData.estatisticas.totalVendasHoje = Cardinality(SalesOfDay(loaderData.hoje))
        /\ loaderData.estatisticas.totalReceitaHoje = SumValorTotal(SalesOfDay(loaderData.hoje))

\* C8: the day the loaders take for today is the calendar date of now in the
\* zone of the server.
C8_HojeIsLocalDate ==
    loaderData.loader # "none" => loaderData.hoje = LocalDate(now, tz)

\* C9: valorTotalMes is the sum of valor_total over the sales dated from the
\* first instant of the month of now to its last, each once.
C9_ValorTotalMesWithinMonth ==
    (loaderData.loader = "vendas" /\ ~loaderData.errs[3]) =>
        loaderData.stats.valorTotalMes = SumValorTotal(SalesOfMonth)

\* C10: every sale in the today window a loader computes from hoje is in the
\* month window computed from inicioMes, so that the revenue of today is at
\* most the revenue of the month, in every zone of the server.
C10_TodayWithinMonth ==
    /\ loaderData.loader = "vendas" =>
           VendasHojeRows(loaderData.hoje) \subseteq VendasMesRows(loaderData.inicioMes)
    /\ (loaderData.loader \in {"farmacia", "farmacia2"} /\ ~loaderData.errs[2]) =>
           /\ PharmacyHojeRows(loaderData.hoje) \subseteq VendasMesRows(InicioMes(now, tz))
           /\ loaderData.estatisticas.totalReceitaHoje
                  <= SumValorTotal(VendasMesRows(InicioMes(now, tz)))

\* C16: the three loaders take the same sales for today: vendasHoje of the
\* sales dashboard is the count the pharmacy loaders' window gives,
\* totalVendasHoje is the count the sales dashboard's window gives, and both
\* pharmacy loaders sum the same revenue.
C16_SameTodayFigures ==
    /\ (loaderData.loader = "vendas" /\ ~loaderData.errs[2]) =>
           loaderData.stats.vendasHoje = Cardinality(PharmacyHojeRows(loaderData.hoje))
    /\ (loaderData.loader \in {"farmacia", "farmacia2"} /\ ~loaderData.errs[1]) =>
           loaderData.estatisticas.totalVendasHoje = Cardinality(VendasHojeRows(loaderData.hoje))
    /\ (loaderData.loader = "farmacia" /\ ~loaderData.errs[2]) =>
           loaderData.estatisticas.totalReceitaHoje
               = SumValorTotalOrZero(PharmacyHojeRows(loaderData.hoje))
    /\ (loaderData.loader = "farmacia2" /\ ~loaderData.errs[2]) =>
           loaderData.estatisticas.totalReceitaHoje
               = SumValorTotal(PharmacyHojeRows(loaderData.hoje))

----------------------------------------------------------------------------
(* The summaries of the loaders (SpecStats) *)

\* C11: ticketMedio is valorTotalMes divided by totalVendas when totalVendas is
\* greater than zero, and 0 when totalVendas is zero or the store did not
\* answer it; it is never the result of a division by zero.
C11_TicketMedio ==
    loaderData.loader = "vendas" =>
        LET stats == loaderData.stats
        IN  /\ stats.ticketMedio.den > 0
            /\ stats.totalVendas > 0 =>
                   stats.ticketMedio = [num |-> stats.valorTotalMes, den |-> stats.totalVendas]
            /\ stats.totalVendas = 0 => stats.ticketMedio = [num |-> 0, den |-> 1]

\* two sales and 350 in the month: the average ticket is 350 / 2
C11_Witness ==
    /\ loaderData.loader = "vendas"
    /\ loaderData.stats.totalVendas = 2
    /\ loaderData.stats.valorTotalMes = 350
    /\ loaderData.stats.ticketMedio = [num |-> 350, den |-> 2]

RECURSIVE SumOfCounts(_, _)
\* the sum of the values of statusCount over the keys given
SumOfCounts(statusCount, keys) ==
    IF keys = {} THEN 0
    ELSE LET k == CHOOSE j \in keys : TRUE
         IN  statusCount[k].n + SumOfCounts(statusCount, keys \ {k})

\* the rows whose status is st
RowsWithStatus(st) == {i \in DOMAIN vendas : vendas[i].status = st}

\* C12: the values of statusCount are numbers and sum to the number of rows
\* the status query returned, whatever the statuses of the rows are.
C12_StatusCountSumsToRows ==
    (loaderData.loader = "vendas" /\ ~loaderData.errs[4]) =>
        /\ \A k \in DOMAIN loaderData.statusCount : loaderData.statusCount[k].kind = "number"
        /\ SumOfCounts(loaderData.statusCount, DOMAIN loaderData.statusCount)
               = Cardinality(DOMAIN vendas)

\* C13: statusCount has a key for a status exactly when a row has that
\* status, its value is the number of the rows with that status, and no value
\* is zero.
C13_StatusCountExact ==
    (loaderData.loader = "vendas" /\ ~loaderData.errs[4]) =>
        /\ DOMAIN loaderData.statusCount = {PropertyKey(vendas[i].status) : i \in DOMAIN vendas}
        /\ \A i \in DOMAIN vendas :
               loaderData.statusCount[PropertyKey(vendas[i].status)]
                   = Number(Cardinality(RowsWithStatus(vendas[i].status)))
        /\ \A k \in DOMAIN loaderData.statusCount : loaderData.statusCount[k] # Number(0)

\* C14: with no sale stored, the sales loader answers 0 for totalVendas,
\* vendasHoje, valorTotalMes and ticketMedio and an empty statusCount, and the
\* pharmacy loaders answer 0 for totalVendasHoje and totalReceitaHoje.
C14_NoSalesAllZero ==
    vendas = <<>> =>
        /\ loaderData.loader = "vendas" =>
               /\ loaderData.stats =
                      [totalVendas |-> 0, vendasHoje |-> 0, valorTotalMes |-> 0,
                       ticketMedio |-> [num |-> 0, den |-> 1]]
               /\ loaderData.statusCount = <<>>
        /\ loaderData.loader \in {"farmacia", "farmacia2"} =>
               /\ loaderData.estatisticas.totalVendasHoje = 0
               /\ loaderData.estatisticas.totalReceitaHoje = 0

\* the sales loader answered over an empty table, every query without error
C14_Witness ==
    /\ vendas = <<>>
    /\ loaderData.loader = "vendas"
    /\ \A k \in 1..4 : ~loaderData.errs[k]
    /\ loaderData.stats.totalVendas = 0
    /\ loaderData.statusCount = <<>>

\* the rows, of those given, that have a valor_total
WithValor(ids) == {i \in ids : vendas[i].valor_total # NullValor}

RECURSIVE SumOfValores(_)
\* the sum of valor_total over rows that all have one
SumOfValores(ids) ==
    IF ids = {} THEN 0
    ELSE LET i == CHOOSE j \in ids : TRUE
         IN  vendas[i].valor_total + SumOfValores(ids \ {i})

CancelledOfDay(hoje) == {i \in SalesOfDay(hoje) : vendas[i].status = "cancelada"}
OthersOfDay(hoje) == SalesOfDay(hoje) \ CancelledOfDay(hoje)

\* C20: the summaries of today do not look at the status: the cancelled
\* sales of the day are counted with the others, and their amounts are part
\* of the revenue of the day.
C20_CancelledSalesCounted ==
    /\ (loaderData.loader \in {"farmacia", "farmacia2"} /\ ~loaderData.errs[1] /\ ~loaderData.errs[2]) =>
           /\ loaderData.estatisticas.totalVendasHoje
                  = Cardinality(OthersOfDay(loaderData.hoje)) + Cardinality(CancelledOfDay(loaderData.hoje))
           /\ loaderData.estatisticas.totalReceitaHoje
                  = SumOfValores(WithValor(OthersOfDay(loaderData.hoje)))
                        + SumOfValores(WithValor(CancelledOfDay(loaderData.hoje)))
    /\ (loaderData.loader = "vendas" /\ ~loaderData.errs[2]) =>
           loaderData.stats.vendasHoje
               = Cardinality(OthersOfDay(loaderData.hoje)) + Cardinality(CancelledOfDay(loaderData.hoje))

\* three sales today of 100, 250 and 0, one of them cancelled: the pharmacy
\* loader answers 3 sales and a revenue of 350
C20_Witness ==
    /\ loaderData.loader = "farmacia"
    /\ {vendas[i].valor_total : i \in SalesOfDay(loaderData.hoje)} = {100, 250, 0}
    /\ Cardinality(SalesOfDay(loaderData.hoje)) = 3
    /\ Cardinality(CancelledOfDay(loaderData.hoje)) = 1
    /\ loaderData.estatisticas.totalVendasHoje = 3
    /\ loaderData.estatisticas.totalReceitaHoje = 350

----------------------------------------------------------------------------
(* The loader while the action runs (SpecConcurrent) *)

\* C17: the figures of one response of the loader are of one state of the
\* sales table, also when a request to the action comes between its queries:
\* the values of statusCount sum to totalVendas, and vendasHoje is at most
\* totalVendas.
C17_OneSnapshot ==
    (loaderData.loader = "vendas" /\ \A k \in 1..4 : ~loaderData.errs[k]) =>
        /\ SumOfCounts(loaderData.statusCount, DOMAIN loaderData.statusCount)
               = loaderData.stats.totalVendas
        /\ loaderData.stats.vendasHoje <= loaderData.stats.totalVendas

----------------------------------------------------------------------------
(* The answers of the actions (Spec, SpecOthers, SpecRepeat, SpecToggle) *)

\* the action types a handler knows (the generic dashboard reads none)
Recognised(route) ==
    IF route = "vendas" THEN {"delete_venda", "update_status"}
    ELSE IF route \in {"farmacia", "farmacia2"} THEN {"delete", "toggleStatus"}
    ELSE {}

\* the last request named no action its handler knows or, to the pharmacy
\* action with the checks, lacked the table or the id
InvalidRequest ==
    /\ last.route # "none"
    /\ \/ last.form.kind \notin Recognised(last.route)
       \/ last.route = "farmacia2" /\ (last.form.table = Null \/ last.form.id = 0)

\* the stored rows are those before the last request
NothingChanged ==
    /\ vendas = last.pre.vendas
    /\ itens_venda = last.pre.itens_venda
    /\ produtos = last.pre.produtos

\* C25, as claimed: a request that names no action its handler knows is
\* answered 400 and changes no row, by every handler, the generic dashboard's
\* included.
C25_InvalidRequestRejected ==
    InvalidRequest => (last.code = 400 /\ NothingChanged)

\* C25, amended: the same for the handlers that read an action type: the
\* sales dashboard's and both pharmacy dashboards'.
C25_InvalidRequestRejectedWhereRead ==
    (InvalidRequest /\ last.route # "generic") => (last.code = 400 /\ NothingChanged)

\* the pharmacy action with the checks answered 400 to a delete without a table
C25_Witness ==
    /\ last.route = "farmacia2"
    /\ last.form.kind = "delete"
    /\ last.form.table = Null
    /\ last.code = 400
    /\ NothingChanged

\* C26: an action answers with success only when every store call it made
\* succeeded; a store error is answered 500.
C26_SuccessOnlyWithoutStoreError ==
    (last.route # "none" /\ \E k \in DOMAIN last.errs : last.errs[k]) => last.code = 500

\* C24: a sale that delete_venda removed stays removed: no later
\* update_status or delete_venda request stores a sale that was not stored
\* before it, or a line item of such a sale.
C24_DeletedStaysDeleted ==
    /\ DOMAIN vendas \subseteq DOMAIN last.pre.vendas
    /\ DOMAIN itens_venda \subseteq DOMAIN last.pre.itens_venda
    /\ \A id \in VendaIds \ DOMAIN last.pre.vendas : ItensOf(itens_venda, id) = {}

\* an update_status for a sale that was deleted before was answered with
\* success, and the sale is still not stored
C24_Witness ==
    /\ last.form.kind = "update_status"
    /\ last.form.status = "confirmada"
    /\ last.code = 200
    /\ last.form.id \notin DOMAIN last.pre.vendas
    /\ last.form.id \notin DOMAIN vendas
    /\ ItensOf(itens_venda, last.form.id) = {}

\* C23: a toggleStatus answered with success leaves the row with the negation
\* of the status it had just before the request, also when the page submits
\* the toggle of a row twice.
C23_ToggleFlipsStoredStatus ==
    (/\ last.form.kind = "toggleStatus"
     /\ last.code = 200
     /\ last.form.id \in DOMAIN last.pre.produtos) =>
        produtos[last.form.id].status = ~last.pre.produtos[last.form.id].status

\* the products the low-stock count leaves out
Inactive == {p \in DOMAIN produtos : ~produtos[p].status}
ActiveWithEnough == {p \in DOMAIN produtos : produtos[p].status /\ produtos[p].quantidade >= 10}

\* C30: when the low-stock query is answered, produtosBaixoEstoque is the
\* number of products that are active and have a quantity below 10: every
\* product but the inactive ones and the active ones with 10 or more, in both
\* pharmacy loaders.
C30_LowStockCount ==
    (loaderData.loader \in {"farmacia", "farmacia2"} /\ ~loaderData.errs[3]) =>
        loaderData.estatisticas.produtosBaixoEstoque
            = Cardinality(DOMAIN produtos) - Cardinality(Inactive) - Cardinality(ActiveWithEnough)
C30_Witness ==
    /\ loaderData.loader = "farmacia2"
    /\ ~loaderData.errs[3]
    /\ loaderData.estatisticas.produtosBaixoEstoque = 1
    /\ \E p, q, r \in DOMAIN produtos :
           /\ produtos[p] = [status |-> TRUE, quantidade |-> 10]
           /\ produtos[q] = [status |-> FALSE, quantidade |-> 9]
           /\ produtos[r] = [status |-> TRUE, quantidade |-> 9]

\* C22: every answer of a loader has every field of its statistics, each a
\* number that is not null and not the result of a division by zero, also
\* when queries answered an error or amounts are NULL.
C22_StatisticsComplete ==
    /\ loaderData.loader = "vendas" =>
           /\ DOMAIN loaderData.stats = {"totalVendas", "vendasHoje", "valorTotalMes", "ticketMedio"}
           /\ loaderData.stats.totalVendas \in Nat
           /\ loaderData.stats.vendasHoje \in Nat
           /\ loaderData.stats.valorTotalMes \in Nat
           /\ loaderData.stats.ticketMedio.num \in Nat
           /\ loaderData.stats.ticketMedio.den \in Nat \ {0}
    /\ loaderData.loader \in {"farmacia", "farmacia2"} =>
           /\ DOMAIN loaderData.estatisticas
                  = {"totalVendasHoje", "totalReceitaHoje", "produtosBaixoEstoque"}
           /\ loaderData.estatisticas.totalVendasHoje \in Nat
           /\ loaderData.estatisticas.totalReceitaHoje \in Nat
           /\ loaderData.estatisticas.produtosBaixoEstoque \in Nat

\* every query of the sales dashboard answered an error while sales, one of
\* them with a NULL amount, were stored: zeros all over
C22_Witness ==
    /\ loaderData.loader = "vendas"
    /\ \A k \in DOMAIN loaderData.errs : loaderData.errs[k]
    /\ \E i \in DOMAIN vendas : vendas[i].valor_total = NullValor
    /\ loaderData.stats = [totalVendas |-> 0, vendasHoje |-> 0, valorTotalMes |-> 0,
                           ticketMedio |-> [num |-> 0, den |-> 1]]

\* C21: the status summary of the sales dashboard has an entry for each of
\* the four known statuses, with zero for a status that no sale has.
C21_SummaryHasEveryKnownStatus ==
    loaderData.loader = "vendas" =>
        \A s \in Statuses :
            \E entry \in ResumoPorStatus(loaderData.statusCount) :
                /\ entry[1] = s
                /\ RowsWithStatus(s) = {} => entry[2] = Number(0)

----------------------------------------------------------------------------
(* The list of sales on the page (SpecPage, SpecMany) *)

\* the list the page shows
Shown == vendasFiltradas(loaderData.vendas, page.filtroStatus)

\* the place of sale id in the loaded list (0 when it is not there)
PlaceOf(id) ==
    IF \E k \in 1..Len(loaderData.vendas) : loaderData.vendas[k].id = id
    THEN CHOOSE k \in 1..Len(loaderData.vendas) : loaderData.vendas[k].id = id
    ELSE 0

\* C27: under "todos" the page lists the whole loaded list; under a status it
\* lists the loaded sales of that status, each once and in the order of the
\* loaded list, so a sale of no known status is listed under "todos" only.
C27_FilterByStatus ==
    Loaded =>
        /\ page.filtroStatus = "todos" => Shown = loaderData.vendas
        /\ page.filtroStatus # "todos" =>
               /\ \A k \in 1..Len(Shown) : Shown[k].status = page.filtroStatus /\ PlaceOf(Shown[k].id) > 0
               /\ \A k \in 1..Len(loaderData.vendas) :
                      loaderData.vendas[k].status = page.filtroStatus =>
                          \E j \in 1..Len(Shown) : Shown[j] = loaderData.vendas[k]
               /\ \A j, k \in 1..Len(Shown) : j < k => PlaceOf(Shown[j].id) < PlaceOf(Shown[k].id)
               /\ \A k \in 1..Len(loaderData.vendas) :
                      loaderData.vendas[k].status \notin Statuses =>
                          \A j \in 1..Len(Shown) : Shown[j] # loaderData.vendas[k]

\* two sales loaded, a pendente one after one of an unknown status: under
\* "pendente" the page lists the second alone
C27_Witness ==
    /\ Loaded
    /\ Len(loaderData.vendas) = 2
    /\ loaderData.vendas[1].status = "bogus"
    /\ loaderData.vendas[2].status = "pendente"
    /\ page.filtroStatus = "pendente"
    /\ Shown = <<loaderData.vendas[2]>>

\* C29: after a row click expandedVenda is null or the sale clicked last: null
\* when the click found that sale expanded, that sale when it found another
\* one or none expanded; so two clicks on a sale from the collapsed state
\* leave it collapsed.
C29_OneRowExpanded ==
    /\ page.expandedVenda \in {0, page.clicked}
    /\ page.clicked # 0 =>
           /\ page.before = page.clicked => page.expandedVenda = 0
           /\ page.before # page.clicked => page.expandedVenda = page.clicked

\* a click on the expanded sale while another sale is listed: it collapsed
C29_Witness ==
    /\ Loaded
    /\ Len(Shown) = 2
    /\ page.clicked = Shown[2].id
    /\ page.before = page.clicked
    /\ page.expandedVenda = 0

\* the count the summary shows for status s: none is zero
CountShown(s) ==
    IF s \in DOMAIN loaderData.statusCount THEN loaderData.statusCount[s].n ELSE 0

\* C28: when the list and the status summary are both answered, the number of
\* sales the page lists under a status is the count the summary has for that
\* status, however many sales are stored.
C28_ListedMatchesSummary ==
    (Loaded /\ ~loaderData.errs[4] /\ ~loaderData.errs[5]) =>
        \A s \in Statuses : Len(vendasFiltradas(loaderData.vendas, s)) = CountShown(s)

====
